---- MODULE Spec2Model ----
(***************************************************************************)
(* Block-size explorer front end: the resilient fetch client               *)
(* (api/blockService.ts), the range form (components/RangeSelector.tsx),   *)
(* the range state, the queries and the views of the page (app/page.tsx),  *)
(* the countdown badge (components/UpdateCountdown.tsx), the component     *)
(* breakdown (BlockSizeMetrics, BlockComponentsTable) and the blob base    *)
(* fee estimate (blockService.ts, BlobBaseFeeChart).                       *)
(*                                                                         *)
(* Text (form fields, the sessionStorage item) is a sequence of            *)
(* one-character strings, so that parseInt and toString are computed.      *)
(***************************************************************************)
EXTENDS Integers, Sequences, FiniteSets, Bags, TLC

VARIABLES
    mockParam,        \* window.location.search has the 'mock' parameter
    sessionStorage,   \* the 'api_failure_count' item of sessionStorage
    inflight,         \* axios requests awaiting their response
    last,             \* what the latest step of the fetch client did
    range,            \* Home: the active range (useState range)
    latestBlock,      \* Home: latestBlockQuery.data (its slot)
    autoRefresh,      \* Home: useState autoRefresh
    startSlot,        \* RangeSelector: text of the start field
    endSlot,          \* RangeSelector: text of the end field
    error,            \* RangeSelector: the validation message
    mounted,          \* RangeSelector is rendered
    syncPending,      \* RangeSelector: the effect on currentRange is due
    ui,               \* what the latest step of the form or page did
    countdown,        \* UpdateCountdown: useState countdown (seconds)
    timerRef,         \* UpdateCountdown: the interval timer is set
    sinceStart,       \* UpdateCountdown: Date.now() - startTimeRef.current (ms)
    effectDeps,       \* UpdateCountdown: autoRefresh when its effect last ran
    poll,             \* Home: the refetch cycle of latestBlockQuery
    queries,          \* Home: the results of blocksQuery, blobsQuery, blobFeesQuery
    queryKey,         \* Home: the range in the keys of those queries
    prevRef,          \* Home: prevBlocksRef, prevBlobsRef, prevBlobFeesRef
    shown,            \* Home: blocks, blobs, blobFees of the latest render
    screen,           \* Home: the views of the latest render
    superseded,       \* fetches in flight of queries whose key is no longer used
    late,             \* the result of such a fetch that arrived in the latest step
    block,            \* the latest block of the blocks prop of the components
    metrics,          \* BlockSizeMetrics: the values of its useMemo
    table,            \* BlockComponentsTable: the values of its useMemo
    feeItem,          \* an entry of the body of a blob fee response
    served,           \* the BlobFeeData a fee operation resolved with
    chartRow,         \* BlobBaseFeeChart: the row of chartData for served
    feeEvent          \* where a fee was decided in the latest step

fetchVars == <<mockParam, sessionStorage, inflight, last>>
rangeVars == <<range, latestBlock, autoRefresh, startSlot, endSlot, error,
               mounted, syncPending, ui>>
countdownVars == <<countdown, timerRef, sinceStart, effectDeps, poll>>
queryVars == <<queries, queryKey, prevRef, shown, screen, superseded, late>>
componentVars == <<block, metrics, table>>
feeVars   == <<feeItem, served, chartRow, feeEvent>>
pageVars  == <<rangeVars, countdownVars, queryVars, componentVars, feeVars>>
\* what the range form and the range effects never touch
offRange  == <<fetchVars, countdownVars, queryVars, componentVars, feeVars>>
vars      == <<fetchVars, pageVars>>

----------------------------------------------------------------------------
(* Bounds *)

\* requests that may await a response at the same time
MaxInFlight == 2

----------------------------------------------------------------------------
(* Text: parseInt and Number.prototype.toString *)

Digits == <<"0", "1", "2", "3", "4", "5", "6", "7", "8", "9">>

DigitSet == {Digits[i] : i \in 1..10}

DigitVals ==
    ("0" :> 0) @@ ("1" :> 1) @@ ("2" :> 2) @@ ("3" :> 3) @@ ("4" :> 4) @@
    ("5" :> 5) @@ ("6" :> 6) @@ ("7" :> 7) @@ ("8" :> 8) @@ ("9" :> 9)

DigitVal(c) == DigitVals[c]

RECURSIVE natToString(_)
natToString(n) ==
    IF n < 10 THEN <<Digits[n + 1]>>
    ELSE natToString(n \div 10) \o <<Digits[(n % 10) + 1]>>

\* (n).toString() of an integer
toString(n) == IF n < 0 THEN <<"-">> \o natToString(0 - n) ELSE natToString(n)

RECURSIVE skipSpaces(_)
skipSpaces(s) ==
    IF s # <<>> /\ Head(s) = " " THEN skipSpaces(Tail(s)) ELSE s

\* the value of the longest prefix of s made of digits, continuing acc;
\* seen tells whether a digit was read
RECURSIVE readDigits(_, _, _)
readDigits(s, acc, seen) ==
    IF s # <<>> /\ Head(s) \in DigitSet
    THEN readDigits(Tail(s), acc * 10 + DigitVal(Head(s)), TRUE)
    ELSE [nan |-> ~seen, val |-> acc]

\* parseInt(s, 10): leading blanks, an optional sign, then the longest run
\* of digits; NaN when there is no digit at that place
parseInt(s) ==
    LET t    == skipSpaces(s)
        neg  == t # <<>> /\ Head(t) = "-"
        body == IF t # <<>> /\ Head(t) \in {"-", "+"} THEN Tail(t) ELSE t
        r    == readDigits(body, 0, FALSE)
    IN  IF r.nan THEN [nan |-> TRUE, val |-> 0]
        ELSE [nan |-> FALSE, val |-> IF neg THEN 0 - r.val ELSE r.val]

----------------------------------------------------------------------------
(* api/blockService.ts: the failure counter *)

NoItem == [present |-> FALSE, value |-> <<>>]

Item(s) == [present |-> TRUE, value |-> s]

\* sessionStorage.getItem('api_failure_count') || '0'
getItemOrZero(st) ==
    IF st.present /\ st.value # <<>> THEN st.value ELSE <<"0">>

\* parseInt(sessionStorage.getItem('api_failure_count') || '0')
apiFailureCount(st) == parseInt(getItemOrZero(st)).val

FailureThreshold == 3

\* variant: the circuit opens one failure later
shouldUseMockData_late(mock, st) ==
    \/ mock
    \/ apiFailureCount(st) > FailureThreshold + 1

shouldUseMockData(mock, st) ==
    \/ mock
    \/ apiFailureCount(st) > FailureThreshold

\* variant: the count is written back without the increment
recordApiFailure_stuck(st) == Item(toString(apiFailureCount(st)))

recordApiFailure(st) == Item(toString(apiFailureCount(st) + 1))

\* variant: the item is left as it is
resetApiFailureCounter_keep(st) == st

resetApiFailureCounter(st) == Item(<<"0">>)

----------------------------------------------------------------------------
(* api/blockService.ts: the synthetic payloads, as the slots of their entries *)

MOCK_SLOT == 12345

MOCK_BLOCK == <<MOCK_SLOT>>

MOCK_BLOCKS == <<12345, 12346, 12347>>

MockFeeSlotsCap == 20

Min(a, b) == IF a < b THEN a ELSE b

Max(a, b) == IF a > b THEN a ELSE b

SingleOps == {"fetchBlock", "fetchBlockBlobs", "fetchBlobFee"}

RangeOps == {"fetchBlocks", "fetchBlobsRange", "fetchBlobFeesRange"}

Ops == SingleOps \cup RangeOps \cup {"fetchLatestBlock"}

\* typeof blockId === 'number' ? blockId : 12345
mockSlotOf(req) == IF req.head THEN MOCK_SLOT ELSE req.start

\* Array.from({length: Math.min(endSlot - startSlot + 1, 20)}, (_, i) => startSlot + i)
mockFeeSlots(req) ==
    [i \in 1..Min(req.end - req.start + 1, MockFeeSlotsCap) |-> req.start + i - 1]

\* what an operation returns in its shouldUseMockData() branch
mockModeSlots(req) ==
    CASE req.op \in {"fetchBlock", "fetchLatestBlock"} -> MOCK_BLOCK
      [] req.op = "fetchBlocks"                        -> MOCK_BLOCKS
      [] req.op \in {"fetchBlockBlobs", "fetchBlobFee"} -> <<mockSlotOf(req)>>
      [] req.op = "fetchBlobsRange"    -> <<req.start, req.start + 1, req.end>>
      [] req.op = "fetchBlobFeesRange" -> mockFeeSlots(req)

\* what an operation returns from its catch block on a network error
fallbackSlots(req) ==
    CASE req.op \in {"fetchBlock", "fetchLatestBlock"} -> MOCK_BLOCK
      [] req.op = "fetchBlocks"                        -> MOCK_BLOCKS
      [] req.op \in {"fetchBlockBlobs", "fetchBlobFee"} -> <<mockSlotOf(req)>>
      [] req.op = "fetchBlobsRange"    -> <<req.start, req.end>>
      [] req.op = "fetchBlobFeesRange" -> mockFeeSlots(req)

----------------------------------------------------------------------------
(* api/blockService.ts: the fetch operations *)

\* the slots given as blockId and the ranges given as (startSlot, endSlot)
BlockSlots == {5}

Ranges == {[start |-> 0, end |-> 0], [start |-> 5, end |-> 25]}

\* a call of a fetch operation: head stands for the blockId 'head'
Requests ==
    {[op |-> "fetchLatestBlock", head |-> TRUE, start |-> 0, end |-> 0]}
    \cup {[op |-> o, head |-> TRUE, start |-> 0, end |-> 0] : o \in SingleOps}
    \cup {[op |-> o, head |-> FALSE, start |-> s, end |-> s] :
             o \in SingleOps, s \in BlockSlots}
    \cup {[op |-> o, head |-> FALSE, start |-> r.start, end |-> r.end] :
             o \in RangeOps, r \in Ranges}

\* how axios.get settles: a 2xx response, a 2xx response whose body is null
\* (or, for a range, a list with a null entry), a response with another
\* status, or an AxiosError without response
Responses == {"ok", "ok_null", "http_error", "no_response", "timeout"}

IsOk(resp) == resp \in {"ok", "ok_null"}

\* variant: a timeout is not taken for a network error
IsNetworkError_noTimeout(resp) == resp = "no_response"

\* axios.isAxiosError(error) && !error.response
IsNetworkError(resp) == resp \in {"no_response", "timeout"}

\* the code after resetApiFailureCounter() dereferences the body
\* (data.blob_base_fee, item.blob_base_fee)
handlerThrows(req, resp) ==
    /\ req.op \in {"fetchBlobFee", "fetchBlobFeesRange"}
    /\ resp = "ok_null"

NoRequest == [op |-> "none", head |-> FALSE, start |-> 0, end |-> 0]

\* The record of a step of the fetch client: the call, what the step was
\* ("mock", "issued", "success", "fallback", "rejected"), how axios.get
\* settled, the counter before the step, whether a request went out, whether
\* the caller got synthetic data and the slots of that data.  run counts the
\* network-class failures in a row since the counter was 0; it is -1 once
\* another kind of failure was counted.
Event(req, step, resp, prev, network, synthetic, slots, run) ==
    [req |-> req, step |-> step, resp |-> resp, prev |-> prev,
     network |-> network, synthetic |-> synthetic, slots |-> slots, run |-> run]

\* variant: the mock branch sets the counter back to 0
Fetch_mockResets ==
    LET useMock == shouldUseMockData(mockParam, sessionStorage)
        prev    == apiFailureCount(sessionStorage)
    IN  \E req \in Requests :
            /\ IF useMock
               THEN /\ last' = Event(req, "mock", "none", prev, FALSE, TRUE,
                                     mockModeSlots(req), last.run)
                    /\ sessionStorage' = resetApiFailureCounter(sessionStorage)
                    /\ UNCHANGED inflight
               ELSE /\ BagCardinality(inflight) < MaxInFlight
                    /\ inflight' = inflight (+) SetToBag({req})
                    /\ last' = Event(req, "issued", "none", prev, TRUE, FALSE,
                                     <<>>, last.run)
                    /\ UNCHANGED sessionStorage
            /\ UNCHANGED mockParam
            /\ UNCHANGED pageVars

\* a fetch operation up to its first await: the mock branch resolves at
\* once, otherwise axios.get is issued
Fetch ==
    LET useMock == shouldUseMockData(mockParam, sessionStorage)
        prev    == apiFailureCount(sessionStorage)
    IN  \E req \in Requests :
            /\ IF useMock
               THEN /\ last' = Event(req, "mock", "none", prev, FALSE, TRUE,
                                     mockModeSlots(req), last.run)
                    /\ UNCHANGED inflight
               ELSE /\ BagCardinality(inflight) < MaxInFlight
                    /\ inflight' = inflight (+) SetToBag({req})
                    /\ last' = Event(req, "issued", "none", prev, TRUE, FALSE,
                                     <<>>, last.run)
            /\ UNCHANGED <<mockParam, sessionStorage>>
            /\ UNCHANGED pageVars

\* the continuation of a fetch operation after axios.get resolved (2xx):
\* prev is the counter when the response arrives
OnResponse(req, resp, prev) ==
    LET st1 == resetApiFailureCounter(sessionStorage)
    IN  IF handlerThrows(req, resp)
        THEN \* caught by the operation's own catch block; a TypeError is
             \* not an AxiosError, so it is thrown again
             /\ sessionStorage' = recordApiFailure(st1)
             /\ last' = Event(req, "rejected", resp, prev, FALSE, FALSE, <<>>, -1)
        ELSE /\ sessionStorage' = st1
             /\ last' = Event(req, "success", resp, prev, FALSE, FALSE, <<>>, 0)

\* the catch block of a fetch operation after axios.get rejected:
\* recorded is the item after recordApiFailure()
OnError(req, resp, prev, recorded) ==
    /\ sessionStorage' = recorded
    /\ IF IsNetworkError(resp)
       THEN last' = Event(req, "fallback", resp, prev, FALSE, TRUE, fallbackSlots(req),
                          IF last.run >= 0 THEN last.run + 1 ELSE -1)
       ELSE last' = Event(req, "rejected", resp, prev, FALSE, FALSE, <<>>, -1)

\* axios.get of an awaiting operation settles and the operation finishes
Settle ==
    LET prev     == apiFailureCount(sessionStorage)
        recorded == recordApiFailure(sessionStorage)
    IN  \E req \in BagToSet(inflight), resp \in Responses :
            /\ inflight' = inflight (-) SetToBag({req})
            /\ IF IsOk(resp)
               THEN OnResponse(req, resp, prev)
               ELSE OnError(req, resp, prev, recorded)
            /\ UNCHANGED mockParam
            /\ UNCHANGED pageVars

----------------------------------------------------------------------------
(* app/page.tsx and components/RangeSelector.tsx: the active range *)

NoRange == [set |-> FALSE, start |-> 0, end |-> 0]

NoBlock == [known |-> FALSE, slot |-> 0]

NoError == "null"

\* the record of the latest step: the form handler that ran (or "idle"),
\* the shortcut it was given and the arguments of its onRangeChange calls
UiEvent(op, n, calls) == [op |-> op, n |-> n, calls |-> calls]

Idle == UiEvent("idle", 0, <<>>)

\* texts an <input type="number"> hands to onChange: '' or a valid number
InputStrings ==
    { <<>>, <<"-", "1">>, <<"1", ".", "5">>, <<"1", "e", "1">>, <<"0">>,
      <<"1", "0">>, <<"5", "0">>, <<"1", "5", "0">>, <<"1", "5", "1">> }

\* slots of the latest block the page may be handed
LatestSlots == {15, 1050}

QuickRanges == {10, 20, 50, 100}

MaxRangeSpan == 100

InitialRangeSize == 20

Pair(start, end) == [start |-> start, end |-> end]

\* latestSlot={latestBlockQuery.data?.slot || 0}
latestSlotProp == IF latestBlock.known THEN latestBlock.slot ELSE 0

\* the first effect of Home may act: data, and no range yet
InitialRangeDue == latestBlock.known /\ ~range.set

\* the second effect of Home may act: the head is beyond the range
AutoUpdateDue ==
    /\ autoRefresh
    /\ latestBlock.known
    /\ range.set
    /\ latestBlock.slot > range.end

\* variant: events are handled while the head is beyond the range
Settled_beforeHeadEffect == ~syncPending /\ ~InitialRangeDue

\* every effect has run; the next event is handled
Settled == ~syncPending /\ ~InitialRangeDue /\ ~AutoUpdateDue

\* setRange(r) as seen by RangeSelector: its effect is due when
\* currentRange.start or currentRange.end changed
setRange(r) ==
    /\ range' = [set |-> TRUE, start |-> r.start, end |-> r.end]
    /\ syncPending' = (mounted /\ (~range.set \/ r.start # range.start \/ r.end # range.end))

\* Home.handleRangeChange
handleRangeChange(newRange) == setRange(newRange)

\* variant: a span of exactly 100 is refused
validationError_strict(start, end) ==
    IF start.nan \/ end.nan THEN "Please enter valid slot numbers"
    ELSE IF start.val < 0 \/ end.val < 0 THEN "Slot numbers must be positive"
    ELSE IF start.val > end.val THEN "Start slot must be less than or equal to end slot"
    ELSE IF end.val - start.val >= MaxRangeSpan THEN "Maximum range is 100 slots"
    ELSE NoError

\* the checks of handleSubmit on the parsed bounds, in their order
validationError(start, end) ==
    IF start.nan \/ end.nan THEN "Please enter valid slot numbers"
    ELSE IF start.val < 0 \/ end.val < 0 THEN "Slot numbers must be positive"
    ELSE IF start.val > end.val THEN "Start slot must be less than or equal to end slot"
    ELSE IF end.val - start.val > MaxRangeSpan THEN "Maximum range is 100 slots"
    ELSE NoError

\* onChange of the start field
SetStartSlot(v) ==
    /\ mounted /\ Settled
    /\ startSlot' = v
    /\ ui' = Idle
    /\ UNCHANGED <<range, latestBlock, autoRefresh, endSlot, error, mounted, syncPending>>
    /\ UNCHANGED offRange

\* onChange of the end field
SetEndSlot(v) ==
    /\ mounted /\ Settled
    /\ endSlot' = v
    /\ ui' = Idle
    /\ UNCHANGED <<range, latestBlock, autoRefresh, startSlot, error, mounted, syncPending>>
    /\ UNCHANGED offRange

\* variant: the bounds are handed to onRangeChange although a check failed
HandleSubmit_forwardsInvalid ==
    LET start == parseInt(startSlot)
        end   == parseInt(endSlot)
        err   == validationError(start, end)
    IN  /\ mounted /\ Settled
        /\ error' = err
        /\ handleRangeChange(Pair(start.val, end.val))
        /\ ui' = UiEvent("handleSubmit", 0,
                         IF err # NoError THEN <<>> ELSE <<Pair(start.val, end.val)>>)
        /\ UNCHANGED <<latestBlock, autoRefresh, startSlot, endSlot, mounted>>
        /\ UNCHANGED offRange

\* RangeSelector.handleSubmit
HandleSubmit ==
    LET start == parseInt(startSlot)
        end   == parseInt(endSlot)
        err   == validationError(start, end)
    IN  /\ mounted /\ Settled
        /\ error' = err
        /\ IF err # NoError
           THEN /\ ui' = UiEvent("handleSubmit", 0, <<>>)
                /\ UNCHANGED <<range, syncPending>>
           ELSE /\ handleRangeChange(Pair(start.val, end.val))
                /\ ui' = UiEvent("handleSubmit", 0, <<Pair(start.val, end.val)>>)
        /\ UNCHANGED <<latestBlock, autoRefresh, startSlot, endSlot, mounted>>
        /\ UNCHANGED offRange

\* variant: the window holds N slots, the head included
quickRangeStart_inclusive(latestSlot, n) == Max(0, latestSlot - n + 1)

\* const newStartSlot = Math.max(0, latestSlot - range)
quickRangeStart(latestSlot, n) == Max(0, latestSlot - n)

\* RangeSelector.handleQuickRangeSelect
HandleQuickRangeSelect(n) ==
    LET latestSlot   == latestSlotProp
        newStartSlot == quickRangeStart(latestSlot, n)
    IN  /\ mounted /\ Settled
        /\ startSlot' = toString(newStartSlot)
        /\ endSlot' = toString(latestSlot)
        /\ handleRangeChange(Pair(newStartSlot, latestSlot))
        /\ ui' = UiEvent("handleQuickRangeSelect", n, <<Pair(newStartSlot, latestSlot)>>)
        /\ UNCHANGED <<latestBlock, autoRefresh, error, mounted>>
        /\ UNCHANGED offRange

\* RangeSelector: the effect on [currentRange.start, currentRange.end]
SyncFieldsEffect ==
    /\ mounted /\ syncPending
    /\ startSlot' = toString(range.start)
    /\ endSlot' = toString(range.end)
    /\ syncPending' = FALSE
    /\ ui' = Idle
    /\ UNCHANGED <<range, latestBlock, autoRefresh, error, mounted>>
    /\ UNCHANGED offRange

\* RangeSelector is rendered (again): its state starts from currentRange
Mount ==
    /\ ~mounted /\ range.set /\ Settled
    /\ mounted' = TRUE
    /\ startSlot' = toString(range.start)
    /\ endSlot' = toString(range.end)
    /\ error' = NoError
    /\ ui' = Idle
    /\ UNCHANGED <<range, latestBlock, autoRefresh, syncPending>>
    /\ UNCHANGED offRange

\* RangeSelector leaves the page (loading, error or no blocks)
Unmount ==
    /\ mounted /\ Settled
    /\ mounted' = FALSE
    /\ startSlot' = <<>>
    /\ endSlot' = <<>>
    /\ error' = NoError
    /\ ui' = Idle
    /\ UNCHANGED <<range, latestBlock, autoRefresh, syncPending>>
    /\ UNCHANGED offRange

\* latestBlockQuery delivers a block
LatestBlockData(slot) ==
    /\ Settled
    /\ ~(latestBlock.known /\ latestBlock.slot = slot)
    /\ latestBlock' = [known |-> TRUE, slot |-> slot]
    /\ ui' = Idle
    /\ UNCHANGED <<range, autoRefresh, startSlot, endSlot, error, mounted, syncPending>>
    /\ UNCHANGED offRange

\* variant: the start of the initial range is not held at 0
InitialRangeEffect_unclamped ==
    /\ InitialRangeDue
    /\ setRange(Pair(latestBlock.slot - InitialRangeSize, latestBlock.slot))
    /\ ui' = Idle
    /\ UNCHANGED <<latestBlock, autoRefresh, startSlot, endSlot, error, mounted>>
    /\ UNCHANGED offRange

\* Home: "Set the initial range when we get the latest block"
InitialRangeEffect ==
    /\ InitialRangeDue
    /\ setRange(Pair(Max(0, latestBlock.slot - InitialRangeSize), latestBlock.slot))
    /\ ui' = Idle
    /\ UNCHANGED <<latestBlock, autoRefresh, startSlot, endSlot, error, mounted>>
    /\ UNCHANGED offRange

\* variant: the window grows to the head instead of sliding
AutoUpdateRangeEffect_grow ==
    /\ AutoUpdateDue
    /\ setRange(Pair(range.start, latestBlock.slot))
    /\ ui' = Idle
    /\ UNCHANGED <<latestBlock, autoRefresh, startSlot, endSlot, error, mounted>>
    /\ UNCHANGED offRange

\* Home: "Auto-update range to follow latest block when autoRefresh is enabled"
AutoUpdateRangeEffect ==
    LET latestSlot       == latestBlock.slot
        currentRangeSize == range.end - range.start
    IN  /\ AutoUpdateDue
        /\ setRange(Pair(Max(0, latestSlot - currentRangeSize), latestSlot))
        /\ ui' = Idle
        /\ UNCHANGED <<latestBlock, autoRefresh, startSlot, endSlot, error, mounted>>
        /\ UNCHANGED offRange

\* Home.toggleAutoRefresh
ToggleAutoRefresh ==
    /\ Settled
    /\ autoRefresh' = ~autoRefresh
    /\ ui' = Idle
    /\ UNCHANGED <<range, latestBlock, startSlot, endSlot, error, mounted, syncPending>>
    /\ UNCHANGED offRange

----------------------------------------------------------------------------
(* components/UpdateCountdown.tsx and the polling of app/page.tsx *)

\* const AUTO_REFRESH_INTERVAL = 12000
AUTO_REFRESH_INTERVAL == 12000

\* the period of the setInterval of resetCountdown (ms)
TimerPeriod == 100

\* the timeout of every axios.get of the fetch client (ms)
RequestTimeout == 5000

\* Math.ceil(a / b) for b > 0
Ceil(a, b) == -((-a) \div b)

\* Math.floor(interval / 1000)
fullCountdown(interval) == interval \div 1000

\* variant: the seconds left are cut off, not raised, to a whole number
remainingSeconds_floor(interval, elapsedMs) ==
    Max(0, (interval - elapsedMs) \div 1000)

\* Math.max(0, Math.ceil((interval - elapsedMs) / 1000))
remainingSeconds(interval, elapsedMs) == Max(0, Ceil(interval - elapsedMs, 1000))

\* what UpdateCountdown renders: null without autoRefresh, else the badge
\* with {countdown}
badge ==
    IF ~autoRefresh THEN [shown |-> FALSE, value |-> 0]
    ELSE [shown |-> TRUE, value |-> countdown]

NoDeps == [ran |-> FALSE, autoRefresh |-> FALSE]

Deps(a) == [ran |-> TRUE, autoRefresh |-> a]

\* the effect on [autoRefresh, interval] has to run: first render, or
\* autoRefresh changed
CountdownEffectDue == effectDeps # Deps(autoRefresh)

\* the refetch cycle: a fetch is awaited ("fetching") or the next one is
\* awaited ("waiting"); since is the time in that phase, outcome how the
\* latest fetch ended
Poll(phase, since, outcome) == [phase |-> phase, since |-> since, outcome |-> outcome]

PollOutcomes == {"success", "synthetic"}

\* UpdateCountdown: the effect on [autoRefresh, interval], its cleanup
\* included; with autoRefresh on the queries set their refetch interval anew
CountdownEffect ==
    /\ CountdownEffectDue
    /\ countdown' = fullCountdown(AUTO_REFRESH_INTERVAL)
    /\ timerRef' = autoRefresh
    /\ sinceStart' = 0
    /\ effectDeps' = Deps(autoRefresh)
    /\ poll' = IF autoRefresh /\ poll.phase = "waiting"
               THEN Poll("waiting", 0, poll.outcome)
               ELSE poll
    /\ UNCHANGED <<fetchVars, rangeVars, queryVars, componentVars, feeVars>>

\* TimerPeriod ms pass and the callback of setInterval runs
TimerTick ==
    LET elapsedMs == sinceStart + TimerPeriod
        deadline  == IF poll.phase = "fetching" THEN RequestTimeout
                     ELSE AUTO_REFRESH_INTERVAL
    IN  /\ timerRef /\ ~CountdownEffectDue
        /\ poll.since + TimerPeriod <= deadline
        /\ IF elapsedMs >= AUTO_REFRESH_INTERVAL
           THEN /\ sinceStart' = 0
                /\ countdown' = fullCountdown(AUTO_REFRESH_INTERVAL)
           ELSE /\ sinceStart' = elapsedMs
                /\ countdown' = remainingSeconds(AUTO_REFRESH_INTERVAL, elapsedMs)
        /\ poll' = Poll(poll.phase, poll.since + TimerPeriod, poll.outcome)
        /\ UNCHANGED <<timerRef, effectDeps>>
        /\ UNCHANGED <<fetchVars, rangeVars, queryVars, componentVars, feeVars>>

\* refetchInterval: the interval since the latest result is over
PollStart ==
    /\ autoRefresh /\ ~CountdownEffectDue
    /\ poll.phase = "waiting"
    /\ poll.since >= AUTO_REFRESH_INTERVAL
    /\ poll' = Poll("fetching", 0, poll.outcome)
    /\ UNCHANGED <<countdown, timerRef, sinceStart, effectDeps>>
    /\ UNCHANGED <<fetchVars, rangeVars, queryVars, componentVars, feeVars>>

\* the fetch of the poll ends with data of the node or with synthetic
\* data; UpdateCountdown is given autoRefresh and interval only
PollComplete(outcome) ==
    /\ ~CountdownEffectDue
    /\ poll.phase = "fetching"
    /\ poll.since > 0 \/ ~autoRefresh
    /\ poll' = Poll("waiting", 0, outcome)
    /\ UNCHANGED <<countdown, timerRef, sinceStart, effectDeps>>
    /\ UNCHANGED <<fetchVars, rangeVars, queryVars, componentVars, feeVars>>

----------------------------------------------------------------------------
(* app/page.tsx: the queries over the range and what is rendered of them *)

Queries == {"blocks", "blobs", "blobFees"}

\* results a fetch may deliver: no entry, or one of two non-empty lists
\* (named by a version number)
Results == {<<>>, <<1>>, <<2>>}

\* an entry of a result, as the fetch issued for the range key delivers it
Entry(v, key) == [v |-> v, start |-> key.start, end |-> key.end]

\* queryFn: () => fetchBlocks(range!.start, range!.end), of the query whose
\* key holds range.start and range.end
fetchedFor(result, key) == [i \in DOMAIN result |-> Entry(result[i], key)]

NoLate == [has |-> FALSE, name |-> "none", key |-> NoRange, data |-> <<>>]

Late(f, data) == [has |-> TRUE, name |-> f.name, key |-> f.key, data |-> data]

\* the result of useQuery: status and fetchStatus of the query of the
\* current key and its data (has: data is not undefined)
QueryResult(status, fetching, has, data) ==
    [status |-> status, fetching |-> fetching, has |-> has, data |-> data]

\* enabled: !!range is false
Disabled == QueryResult("pending", FALSE, FALSE, <<>>)

\* a key seen for the first time, the query enabled
FirstFetch == QueryResult("pending", TRUE, FALSE, <<>>)

\* useQuery: isLoading is isFetching && isPending
queryIsLoading(q) == q.status = "pending" /\ q.fetching

queryIsError(q) == q.status = "error"

\* query.data || []
dataOrEmpty(q) == IF q.has THEN q.data ELSE <<>>

\* const blocks = blocksQuery.isLoading && prevBlocksRef.current.length > 0
\*     ? prevBlocksRef.current : blocksQuery.data || []
handed(q, prev) ==
    IF queryIsLoading(q) /\ Len(prev) > 0 THEN prev ELSE dataOrEmpty(q)

\* const isLoading = ...
pageIsLoading(qs, prev) ==
    \/ ~latestBlock.known
    \/ \E n \in Queries : queryIsLoading(qs[n]) /\ ~qs[n].has /\ Len(prev[n]) = 0

\* const isError = ... (latestBlockQuery has its data and no error here)
pageIsError(qs) == \E n \in Queries : queryIsError(qs[n])

\* the four conditional views of the return of Home
render(qs, prev) ==
    LET blocks    == handed(qs["blocks"], prev["blocks"])
        isLoading == pageIsLoading(qs, prev)
        isError   == pageIsError(qs)
    IN  [loading |-> isLoading,
         error   |-> isError,
         tabs    |-> ~isLoading /\ ~isError /\ Len(blocks) > 0,
         empty   |-> ~isLoading /\ ~isError /\ Len(blocks) = 0]

\* the effects "Store previous successful ... data"
storePrev(qs, prev) ==
    [n \in Queries |->
        IF qs[n].has /\ Len(qs[n].data) > 0 THEN qs[n].data ELSE prev[n]]

\* Home renders with the results qs, then its effects run
Render(qs) ==
    /\ queries' = qs
    /\ shown' = [n \in Queries |-> handed(qs[n], prevRef[n])]
    /\ screen' = render(qs, prevRef)
    /\ prevRef' = storePrev(qs, prevRef)

\* the range of the page is not the one in the query keys: Home renders next
KeyChangeDue == queryKey # range

\* Home renders with a new range: the three queries are those of the new
\* keys, without data and fetching
ObserveKey ==
    /\ KeyChangeDue
    /\ queryKey' = range
    /\ Render([n \in Queries |-> FirstFetch])
    /\ superseded' = superseded \cup
           {[name |-> n, key |-> queryKey] : n \in {m \in Queries : queries[m].fetching}}
    /\ late' = NoLate
    /\ UNCHANGED <<fetchVars, rangeVars, countdownVars, componentVars, feeVars>>

\* refetchInterval: a query that has settled is fetched again
QueryRefetch(n) ==
    /\ ~KeyChangeDue /\ Settled
    /\ range.set /\ autoRefresh
    /\ ~queries[n].fetching
    /\ Render([queries EXCEPT ![n].fetching = TRUE])
    /\ late' = NoLate
    /\ UNCHANGED <<queryKey, superseded>>
    /\ UNCHANGED <<fetchVars, rangeVars, countdownVars, componentVars, feeVars>>

\* queryFn resolved with result
QueryResolve(n, result) ==
    /\ ~KeyChangeDue /\ Settled
    /\ queries[n].fetching
    /\ Render([queries EXCEPT
                   ![n] = QueryResult("success", FALSE, TRUE, fetchedFor(result, queryKey))])
    /\ late' = NoLate
    /\ UNCHANGED <<queryKey, superseded>>
    /\ UNCHANGED <<fetchVars, rangeVars, countdownVars, componentVars, feeVars>>

\* queryFn rejected, and again on the one retry: the data stays
QueryReject(n) ==
    /\ ~KeyChangeDue /\ Settled
    /\ queries[n].fetching
    /\ Render([queries EXCEPT ![n].status = "error", ![n].fetching = FALSE])
    /\ late' = NoLate
    /\ UNCHANGED <<queryKey, superseded>>
    /\ UNCHANGED <<fetchVars, rangeVars, countdownVars, componentVars, feeVars>>

\* variant: the result of a superseded fetch is given to the query of the
\* same name of the current key
supersededResult_applied(qs, f, data) ==
    [qs EXCEPT ![f.name] = QueryResult("success", qs[f.name].fetching, TRUE, data)]

\* what the queries of the current keys become when a superseded fetch
\* resolves: its result goes to the query of its own key, which Home no
\* longer uses
supersededResult(qs, f, data) == qs

\* queryFn of a superseded fetch resolved with result
SupersededResolve(f, result) ==
    LET data == fetchedFor(result, f.key)
    IN  /\ ~KeyChangeDue /\ Settled
        /\ f \in superseded
        /\ superseded' = superseded \ {f}
        /\ queries' = supersededResult(queries, f, data)
        /\ late' = Late(f, data)
        /\ UNCHANGED <<queryKey, prevRef, shown, screen>>
        /\ UNCHANGED <<fetchVars, rangeVars, countdownVars, componentVars, feeVars>>

\* queryFn of a superseded fetch rejected
SupersededReject(f) ==
    /\ ~KeyChangeDue /\ Settled
    /\ f \in superseded
    /\ superseded' = superseded \ {f}
    /\ late' = NoLate
    /\ UNCHANGED <<queries, queryKey, prevRef, shown, screen>>
    /\ UNCHANGED <<fetchVars, rangeVars, countdownVars, componentVars, feeVars>>

----------------------------------------------------------------------------
(* components/BlockSizeMetrics.tsx and BlockComponentsTable: the component
   sizes of the latest block.  Sizes are byte counts; a quotient is kept as
   numerator and denominator, so Math.round is computed exactly. *)

\* the fields of BlockComponent, in the order of Object.entries
ComponentKeys ==
    << "execution_payload", "attestations", "deposits", "proposer_slashings",
       "attester_slashings", "voluntary_exits", "sync_aggregate",
       "blob_kzg_commitments" >>

KeySet == {ComponentKeys[i] : i \in DOMAIN ComponentKeys}

\* Math.round(num / den) for num >= 0, den > 0: halves go up
Round(num, den) == (2 * num + den) \div (2 * den)

\* Object.values(map).reduce((sum, value) => sum + value, 0)
RECURSIVE SumFirst(_, _)
SumFirst(map, n) ==
    IF n = 0 THEN 0 ELSE SumFirst(map, n - 1) + map[ComponentKeys[n]]

SumValues(map) == SumFirst(map, Len(ComponentKeys))

\* components.execution_payload >= ssz_size * 0.95
hasInvalidExecutionPayload(b) ==
    b.components["execution_payload"] * 100 >= b.ssz_size * 95

\* components.attestations >= ssz_size * 0.8
hasInvalidAttestations(b) ==
    b.components["attestations"] * 100 >= b.ssz_size * 80

\* variant: attestations are tested against 95% as well
adjustedValue_sameThreshold(b, key) ==
    IF key = "execution_payload" /\ hasInvalidExecutionPayload(b)
    THEN Round(b.ssz_size * 65, 100)
    ELSE IF key = "attestations" /\ b.components["attestations"] * 100 >= b.ssz_size * 95
    THEN Round(b.ssz_size * 25, 100)
    ELSE b.components[key]

\* adjustedValue of one entry: the two estimates
adjustedValue(b, key) ==
    IF key = "execution_payload" /\ hasInvalidExecutionPayload(b)
    THEN Round(b.ssz_size * 65, 100)
    ELSE IF key = "attestations" /\ hasInvalidAttestations(b)
    THEN Round(b.ssz_size * 25, 100)
    ELSE b.components[key]

\* variant: the value is not held at the block size
safeValue_unclamped(b, adjusted) == adjusted

\* const safeValue = Math.min(adjustedValue, latestBlock.ssz_size)
safeValue(b, adjusted) == Min(adjusted, b.ssz_size)

\* the map both components build from the latest block
safeComponents(b) ==
    [key \in KeySet |-> safeValue(b, adjustedValue(b, key))]

\* BlockSizeMetrics: "normalize all components proportionally"
scaleToBlock(map, sszSize) ==
    LET componentsSum == SumValues(map)
    IN  IF componentsSum > sszSize
        THEN [key \in KeySet |-> Round(map[key] * sszSize, componentsSum)]
        ELSE map

\* an entry of the pie chart; components is the breakdown kept by "Other"
PieDataItem(originalName, value, components) ==
    [originalName |-> originalName, value |-> value, components |-> components]

\* where Array.prototype.sort with (a, b) => b.value - a.value puts an entry
\* that comes after those of sorted: behind the entries that are not smaller
insertSorted(sorted, item) ==
    LET k == Cardinality({i \in DOMAIN sorted : sorted[i].value >= item.value})
    IN  SubSeq(sorted, 1, k) \o <<item>> \o SubSeq(sorted, k + 1, Len(sorted))

RECURSIVE sortFirst(_, _)
sortFirst(map, n) ==
    IF n = 0 THEN <<>>
    ELSE insertSorted(sortFirst(map, n - 1),
                      PieDataItem(ComponentKeys[n], map[ComponentKeys[n]], <<>>))

\* const sortedComponents = Object.entries(componentTotals).map(...).sort(...)
sortedComponents(map) == sortFirst(map, Len(ComponentKeys))

\* items.reduce((sum, item) => sum + item.value, 0)
RECURSIVE sumItems(_)
sumItems(items) ==
    IF items = <<>> THEN 0 ELSE items[1].value + sumItems(Tail(items))

\* the value of 0 * Infinity; no size is negative
NaN == -1

\* "Take top 2 components and group the rest as Other"
topAndOther(sorted) ==
    LET top             == SubSeq(sorted, 1, Min(2, Len(sorted)))
        otherComponents == SubSeq(sorted, 3, Len(sorted))
        otherSum        == sumItems(otherComponents)
    IN  IF Len(sorted) > 2 /\ otherSum > 0
        THEN top \o <<PieDataItem("other", otherSum, otherComponents)>>
        ELSE top

\* "Double-check that pie data doesn't exceed total SSZ size"
fitToBlock(pieData, sszSize) ==
    LET pieTotal == sumItems(pieData)
        diff     == IF pieTotal >= sszSize THEN pieTotal - sszSize ELSE sszSize - pieTotal
    IN  IF diff > 1
        THEN [i \in DOMAIN pieData |->
                 [pieData[i] EXCEPT !.value =
                     IF pieTotal = 0 THEN NaN ELSE Round(@ * sszSize, pieTotal)]]
        ELSE pieData

\* a percentage as the table shows it, with toFixed(2): a number given in
\* hundredths of a percent, or the text of NaN or of Infinity
Percentage(hundredths) == [kind |-> "number", hundredths |-> hundredths]

\* BlockComponentsTable.getComponentPercentage: (size / componentsSum) * 100;
\* 0 / 0 is NaN and size / 0 is Infinity for size > 0
getComponentPercentage(size, totalSize, componentsSum) ==
    IF totalSize = 0 THEN Percentage(0)
    ELSE IF componentsSum = 0
    THEN [kind |-> IF size = 0 THEN "NaN" ELSE "Infinity", hundredths |-> 0]
    ELSE Percentage(Round(size * 10000, componentsSum))

NotComputed == [done |-> FALSE]

\* the latest block of an empty blocks prop
NoBlockData == [ssz_size |-> 0, components |-> [key \in KeySet |-> 0]]

\* sizes of blocks and of their fields the components may be given
SszSizes == {0, 10, 100}

PayloadSizes == {0, 2, 60, 94, 95, 120}

AttestationSizes == {0, 2, 30, 79, 80}

DepositSizes == {0, 2, 12}

SmallSizes == {0, 2}

LatestBlocks ==
    { [ssz_size |-> size,
       components |->
           [key \in KeySet |->
               CASE key = "execution_payload" -> ep
                 [] key = "attestations" -> at
                 [] key = "deposits" -> dp
                 [] key = "proposer_slashings" -> ps
                 [] key = "attester_slashings" -> as
                 [] key = "voluntary_exits" -> ve
                 [] key = "sync_aggregate" -> sa
                 [] OTHER -> 0]] :
        size \in SszSizes, ep \in PayloadSizes, at \in AttestationSizes,
        dp \in DepositSizes, ps \in SmallSizes, as \in SmallSizes,
        ve \in SmallSizes, sa \in SmallSizes }

\* BlockSizeMetrics: the useMemo on [blocks]
MetricsMemo ==
    LET adjusted        == [key \in KeySet |-> adjustedValue(block, key)]
        componentTotals == scaleToBlock(safeComponents(block), block.ssz_size)
        sorted          == sortedComponents(componentTotals)
    IN  /\ ~metrics.done
        /\ metrics' = [done |-> TRUE,
                       adjusted |-> adjusted,
                       componentTotals |-> componentTotals,
                       componentsSum |-> SumValues(componentTotals),
                       pieData |-> fitToBlock(topAndOther(sorted), block.ssz_size)]
        /\ UNCHANGED <<block, table>>
        /\ UNCHANGED <<fetchVars, rangeVars, countdownVars, queryVars, feeVars>>

\* BlockComponentsTable: the useMemo of latestComponents and componentsSum,
\* and the percentages of its rows
TableMemo ==
    LET latestComponents == safeComponents(block)
        componentsSum    == SumValues(latestComponents)
        totalSize        == block.ssz_size
    IN  /\ ~table.done
        /\ table' = [done |-> TRUE,
                     adjusted |-> [key \in KeySet |-> adjustedValue(block, key)],
                     latestComponents |-> latestComponents,
                     componentsSum |-> componentsSum,
                     percentages |->
                         [key \in KeySet |->
                             getComponentPercentage(latestComponents[key],
                                                    totalSize, componentsSum)],
                     totalPercentage |->
                         getComponentPercentage(componentsSum, totalSize, componentsSum)]
        /\ UNCHANGED <<block, metrics>>
        /\ UNCHANGED <<fetchVars, rangeVars, countdownVars, queryVars, feeVars>>

----------------------------------------------------------------------------
(* The blob base fee estimated from excess_blob_gas: fetchBlobFee and
   fetchBlobFeesRange of api/blockService.ts, and BlobBaseFeeChart.
   A JSON value is a number, a string of digits or absent. *)

Num(n) == [type |-> "number", val |-> n]

Str(n) == [type |-> "string", val |-> n]

Undefined == [type |-> "undefined", val |-> 0]

\* const MAX_BLOB_GAS = 786432
MAX_BLOB_GAS == 786432

\* the smallest x for which Math.round(Math.exp(x / 3338477) / 1e9) is
\* 1, 2 and 3: 3338477 * ln(0.5e9), 3338477 * ln(1.5e9), 3338477 * ln(2.5e9)
GweiSteps == <<66870091, 70537783, 72243162>>

\* Math.round(Math.exp(x / BLOB_BASE_FEE_UPDATE_FRACTION) / 1e9)
\* for 0 <= x below the step to 4 Gwei
roundedGwei(x) == Cardinality({k \in DOMAIN GweiSteps : x >= GweiSteps[k]})

\* "Ensure we don't return zero for non-zero excess gas"
estimateGwei(x) ==
    LET blobBaseFeeGwei == roundedGwei(x)
    IN  IF blobBaseFeeGwei = 0 /\ x > 0 THEN 1 ELSE blobBaseFeeGwei

BlobFeeData(excess, fee) == [excess_blob_gas |-> excess, blob_base_fee |-> fee]

\* where a fee was decided: the site, whether the estimate was computed
\* there, and the excess gas and the fee of the result
FeeEvent(site, applied, excess, fee) ==
    [site |-> site, applied |-> applied, excess |-> excess, fee |-> fee]

\* typeof data.blob_base_fee !== 'number' || data.blob_base_fee === 0
feeIsInvalid(item) ==
    item.blob_base_fee.type # "number" \/ item.blob_base_fee.val = 0

\* typeof data.excess_blob_gas === 'number' && data.excess_blob_gas > 0
excessIsUsable(item) ==
    item.excess_blob_gas.type = "number" /\ item.excess_blob_gas.val > 0

\* "Validate response data" of fetchBlobFee, and of fetchBlobFeesRange for
\* each entry
validated(item) ==
    IF feeIsInvalid(item) /\ excessIsUsable(item)
    THEN BlobFeeData(item.excess_blob_gas, Num(estimateGwei(item.excess_blob_gas.val)))
    ELSE item

\* a response of fetchBlobFee (site "fetchBlobFee") or an entry of a
\* response of fetchBlobFeesRange (site "fetchBlobFeesRange") is validated
ValidateResponse(site) ==
    /\ served' = [site |-> site, item |-> validated(feeItem)]
    /\ feeEvent' = FeeEvent(site, feeIsInvalid(feeItem) /\ excessIsUsable(feeItem),
                            feeItem.excess_blob_gas.val,
                            validated(feeItem).blob_base_fee.val)
    /\ UNCHANGED <<feeItem, chartRow>>
    /\ UNCHANGED <<fetchVars, rangeVars, countdownVars, queryVars, componentVars>>

\* values of Math.floor(Math.random() * 786432)
MockExcessValues == {0, 1, 100000, MAX_BLOB_GAS - 1}

\* values of Math.floor(200000 + 100000 * Math.sin(...) + Math.random() * 50000)
WaveExcessValues == {100000, 200000, 349999}

\* fetchBlobFee: "Generate realistic mock values", in mock mode and after a
\* network error
SyntheticBlobFee(mockExcessBlobGas) ==
    LET blobBaseFeeGwei == estimateGwei(mockExcessBlobGas)
    IN  /\ served' = [site |-> "fetchBlobFee",
                      item |-> BlobFeeData(Num(mockExcessBlobGas), Num(blobBaseFeeGwei))]
        /\ feeEvent' = FeeEvent("fetchBlobFee mock", TRUE, mockExcessBlobGas, blobBaseFeeGwei)
        /\ UNCHANGED <<feeItem, chartRow>>
        /\ UNCHANGED <<fetchVars, rangeVars, countdownVars, queryVars, componentVars>>

\* fetchBlobFeesRange: an entry of its synthetic series
SyntheticBlobFeesRange(excessBlobGas) ==
    LET clampedExcessGas     == Max(0, Min(excessBlobGas, MAX_BLOB_GAS))
        finalBlobBaseFeeGwei == estimateGwei(clampedExcessGas)
    IN  /\ served' = [site |-> "fetchBlobFeesRange",
                      item |-> BlobFeeData(Num(clampedExcessGas), Num(finalBlobBaseFeeGwei))]
        /\ feeEvent' = FeeEvent("fetchBlobFeesRange mock", TRUE, clampedExcessGas,
                                finalBlobBaseFeeGwei)
        /\ UNCHANGED <<feeItem, chartRow>>
        /\ UNCHANGED <<fetchVars, rangeVars, countdownVars, queryVars, componentVars>>

\* !blobBaseFeePerGas || blobBaseFeePerGas === 0
chartFeeIsMissing(item) ==
    item.blob_base_fee.type = "undefined" \/ item.blob_base_fee.val = 0

\* item.excess_blob_gas && item.excess_blob_gas > 0: a string of digits
\* is converted to its number
chartExcessIsUsable(item) ==
    item.excess_blob_gas.type # "undefined" /\ item.excess_blob_gas.val > 0

\* BlobBaseFeeChart: the row of chartData for an entry
chartData(item) ==
    LET estimated == chartFeeIsMissing(item) /\ chartExcessIsUsable(item)
    IN  [fee |-> IF estimated THEN roundedGwei(item.excess_blob_gas.val)
                 ELSE item.blob_base_fee.val,
         excess |-> item.excess_blob_gas.val]

\* BlobBaseFeeChart renders an entry of the result of fetchBlobFeesRange
\* that blobFeesQuery handed on
ChartData ==
    /\ served.site = "fetchBlobFeesRange"
    /\ chartRow' = [has |-> TRUE, row |-> chartData(served.item)]
    /\ feeEvent' = FeeEvent("BlobBaseFeeChart",
                            chartFeeIsMissing(served.item) /\ chartExcessIsUsable(served.item),
                            chartData(served.item).excess, chartData(served.item).fee)
    /\ UNCHANGED <<feeItem, served>>
    /\ UNCHANGED <<fetchVars, rangeVars, countdownVars, queryVars, componentVars>>

NoFeeItem == BlobFeeData(Undefined, Undefined)

\* what the body of a response may hold for excess_blob_gas
ExcessFields ==
    { Undefined, Num(0), Num(1), Num(100000), Num(GweiSteps[1] - 1),
      Num(GweiSteps[1]), Num(GweiSteps[3]), Str(100000) }

\* what the body of a response may hold for blob_base_fee
FeeFields == {Undefined, Num(0), Num(7)}

----------------------------------------------------------------------------
(* The initial state and the specifications *)

\* the state of the page and of its components when Home is constructed
Construction ==
    /\ mockParam \in BOOLEAN
    /\ sessionStorage = NoItem
    /\ inflight = EmptyBag
    /\ last = Event(NoRequest, "init", "none", 0, FALSE, FALSE, <<>>, 0)
    /\ range = NoRange
    /\ latestBlock = NoBlock
    /\ autoRefresh = TRUE
    /\ startSlot = <<>>
    /\ endSlot = <<>>
    /\ error = NoError
    /\ mounted = FALSE
    /\ syncPending = FALSE
    /\ ui = Idle
    /\ countdown = fullCountdown(AUTO_REFRESH_INTERVAL)
    /\ timerRef = FALSE
    /\ sinceStart = 0
    /\ effectDeps = NoDeps
    /\ poll = Poll("fetching", 0, "none")
    /\ queries = [n \in Queries |-> Disabled]
    /\ queryKey = NoRange
    /\ prevRef = [n \in Queries |-> <<>>]
    /\ shown = [n \in Queries |-> <<>>]
    /\ screen = [loading |-> TRUE, error |-> FALSE, tabs |-> FALSE, empty |-> FALSE]
    /\ superseded = {}
    /\ late = NoLate
    /\ metrics = NotComputed
    /\ table = NotComputed
    /\ served = [site |-> "none", item |-> NoFeeItem]
    /\ chartRow = [has |-> FALSE, row |-> [fee |-> 0, excess |-> 0]]
    /\ feeEvent = FeeEvent("none", FALSE, 0, 0)

Init ==
    /\ Construction
    /\ block = NoBlockData
    /\ feeItem = NoFeeItem

\* the components are given the blocks of a range
ComponentInit ==
    /\ Construction
    /\ block \in LatestBlocks
    /\ feeItem = NoFeeItem

\* the node answers a blob fee request with some entry
FeeInit ==
    /\ Construction
    /\ block = NoBlockData
    /\ feeItem \in {BlobFeeData(excess, fee) : excess \in ExcessFields, fee \in FeeFields}

\* the page alone: it does not read the mock parameter
PageInit == Init /\ ~mockParam

Next ==
    \/ Fetch
    \/ Settle

\* the fetch client under any calls and any behaviour of the upstream
Spec == Init /\ [][Next]_vars

RangeNext ==
    \/ \E v \in InputStrings : SetStartSlot(v)
    \/ \E v \in InputStrings : SetEndSlot(v)
    \/ HandleSubmit
    \/ \E n \in QuickRanges : HandleQuickRangeSelect(n)
    \/ SyncFieldsEffect
    \/ Mount
    \/ Unmount
    \/ \E slot \in LatestSlots : LatestBlockData(slot)
    \/ InitialRangeEffect
    \/ AutoUpdateRangeEffect
    \/ ToggleAutoRefresh

\* the range form and the range state of the page under any user input
RangeSpec == PageInit /\ [][RangeNext]_vars

CountdownNext ==
    \/ ToggleAutoRefresh
    \/ CountdownEffect
    \/ TimerTick
    \/ PollStart
    \/ \E outcome \in PollOutcomes : PollComplete(outcome)

\* the countdown badge and the polls of the page as time passes
CountdownSpec == PageInit /\ [][CountdownNext]_vars

QueryNext ==
    \/ \E slot \in LatestSlots : LatestBlockData(slot)
    \/ InitialRangeEffect
    \/ AutoUpdateRangeEffect
    \/ ObserveKey
    \/ \E n \in Queries : QueryRefetch(n)
    \/ \E n \in Queries, result \in Results : QueryResolve(n, result)
    \/ \E n \in Queries : QueryReject(n)

\* the queries of the page and its views under any results of the fetches
QuerySpec == PageInit /\ [][QueryNext]_vars

SupersedeNext ==
    \/ \E slot \in LatestSlots : LatestBlockData(slot)
    \/ InitialRangeEffect
    \/ AutoUpdateRangeEffect
    \/ ObserveKey
    \/ \E n \in Queries, result \in Results : QueryResolve(n, result)
    \/ \E n \in Queries : QueryReject(n)
    \/ \E f \in superseded, result \in Results : SupersededResolve(f, result)
    \/ \E f \in superseded : SupersededReject(f)

\* the first fetches of the queries of each range, those of an earlier
\* range settling in any order with those of the current one
SupersedeSpec == PageInit /\ [][SupersedeNext]_vars

ComponentNext ==
    \/ MetricsMemo
    \/ TableMemo

\* the breakdown of any latest block by BlockSizeMetrics and
\* BlockComponentsTable
ComponentSpec == ComponentInit /\ [][ComponentNext]_vars

FeeNext ==
    \/ \E site \in {"fetchBlobFee", "fetchBlobFeesRange"} : ValidateResponse(site)
    \/ \E x \in MockExcessValues : SyntheticBlobFee(x)
    \/ \E x \in WaveExcessValues : SyntheticBlobFeesRange(x)
    \/ ChartData

\* the fee of any entry through the fee operations and the chart
FeeSpec == FeeInit /\ [][FeeNext]_vars

----------------------------------------------------------------------------
(* Properties of the fetch client *)

Count == apiFailureCount(sessionStorage)

IsInvocation == last.step \in {"mock", "issued"}

IsCompletion == last.step \in {"success", "fallback", "rejected"}

\* C1: a fetch operation invoked while the mock parameter is present or the
\* failure counter is above 3 returns synthetic data and issues no request.
C1_MockModeSkipsNetwork ==
    (IsInvocation /\ (mockParam \/ last.prev > 3))
        => (last.step = "mock" /\ last.synthetic /\ ~last.network
            /\ last.slots = mockModeSlots(last.req))

\* reached: an operation served from synthetic data because the counter is
\* above 3, without the mock parameter
C1_Witness ==
    /\ last.step = "mock"
    /\ ~mockParam
    /\ last.prev > 3
    /\ last.req.op = "fetchBlobFeesRange"

\* C2 as stated: from counter 0 without mock parameter, after three
\* network-class failures in a row the fourth attempt is served from
\* synthetic data without a request.
C2_FourthAttemptSynthetic ==
    (~mockParam /\ IsInvocation /\ last.run = 3)
        => (last.step = "mock" /\ ~last.network)

\* C2, amended: after four network-class failures in a row the fifth
\* attempt is served from synthetic data without a request.
C2_FifthAttemptSynthetic ==
    (~mockParam /\ IsInvocation /\ last.run = 4)
        => (last.step = "mock" /\ last.synthetic /\ ~last.network)

\* reached: the attempt after four network-class failures in a row
C2_Witness ==
    /\ ~mockParam
    /\ last.step = "mock"
    /\ last.run = 4

\* C3: a fetch that completes successfully leaves the failure counter at 0,
\* whatever the counter was before.
C3_SuccessResetsCounter ==
    (last.step = "success") => (Count = 0 /\ sessionStorage = Item(<<"0">>))

\* reached: a success after a run of failures
C3_Witness ==
    /\ last.step = "success"
    /\ last.prev >= 2

\* C4: a request that ends without response (timeout included) adds exactly
\* 1 to the failure counter and the operation resolves with its synthetic
\* data; it does not reject.
C4_NetworkFailureFallsBack ==
    (IsCompletion /\ last.resp \in {"no_response", "timeout"})
        => (/\ last.step = "fallback"
            /\ last.synthetic
            /\ last.slots = fallbackSlots(last.req)
            /\ Count = last.prev + 1)

\* reached: a timeout turned into synthetic data while the counter was not 0
C4_Witness ==
    /\ last.step = "fallback"
    /\ last.resp = "timeout"
    /\ last.prev >= 1
    /\ Count = last.prev + 1

\* C5: a request that ends with an HTTP error response, or whose response
\* handling throws, increments the failure counter and the operation
\* rejects without synthetic data.
C5_ErrorIncrementsAndRejects ==
    (IsCompletion /\ (last.resp = "http_error" \/ handlerThrows(last.req, last.resp)))
        => (/\ last.step = "rejected"
            /\ ~last.synthetic
            /\ Count = last.prev + 1)

\* C6: once the failure counter is above 3, no step of the fetch client
\* brings it back to 3 or below.
C6_CircuitStaysOpen ==
    [][Count > 3 => apiFailureCount(sessionStorage') > 3]_vars

\* C7: every entry of the synthetic data of fetchBlocks, fetchBlobsRange and
\* fetchBlobFeesRange has its slot within the requested range.
C7_SyntheticSlotsInRange ==
    (last.synthetic /\ last.req.op \in RangeOps)
        => \A i \in DOMAIN last.slots :
              last.req.start <= last.slots[i] /\ last.slots[i] <= last.req.end

----------------------------------------------------------------------------
(* Properties of the range form *)

\* a text that is a non-negative integer in decimal digits
IsIntegerText(s) == s # <<>> /\ \A i \in DOMAIN s : s[i] \in DigitSet

\* the number such a text denotes
RECURSIVE TextValue(_)
TextValue(s) ==
    IF s = <<>> THEN 0
    ELSE 10 * TextValue(SubSeq(s, 1, Len(s) - 1)) + DigitVal(s[Len(s)])

\* the candidate pair in the fields is two integers 0 <= start <= end with
\* end - start <= 100
ValidCandidate ==
    /\ IsIntegerText(startSlot)
    /\ IsIntegerText(endSlot)
    /\ TextValue(startSlot) <= TextValue(endSlot)
    /\ TextValue(endSlot) - TextValue(startSlot) <= 100

\* C8: a submit whose candidate pair has a bound that is not a non-negative
\* integer, or start > end, or end - start > 100, shows a validation error,
\* does not call onRangeChange and leaves the active range as it was.
C8_InvalidSubmitRejected ==
    [][(ui'.op = "handleSubmit" /\ ~ValidCandidate')
          => (error' # NoError /\ ui'.calls = <<>> /\ range' = range)]_vars

\* C9: a submit of integers 0 <= start <= end with end - start <= 100 calls
\* onRangeChange once with {start, end} and the active range is that pair.
C9_ValidSubmitAccepted ==
    (ui.op = "handleSubmit" /\ ValidCandidate)
        => (/\ ui.calls = <<Pair(TextValue(startSlot), TextValue(endSlot))>>
            /\ range = [set |-> TRUE, start |-> TextValue(startSlot),
                        end |-> TextValue(endSlot)]
            /\ error = NoError)

\* reached: an accepted submit of a span of exactly 100
C9_Witness ==
    /\ ui.op = "handleSubmit"
    /\ ValidCandidate
    /\ TextValue(endSlot) - TextValue(startSlot) = 100
    /\ Len(ui.calls) = 1
    /\ range.start = 50 /\ range.end = 150

----------------------------------------------------------------------------
(* Properties of the active range of the page *)

\* C11: after any initial range setup, accepted submits, quick-range
\* shortcuts and head-tracking slides, the active range has
\* 0 <= start <= end and end - start <= 100.
C11_RangeWellFormed ==
    range.set
        => (/\ 0 <= range.start
            /\ range.start <= range.end
            /\ range.end - range.start <= 100)

\* reached: a submitted range of span 100 that was slid to the head 1050,
\* the fields still showing the submitted bounds
C11_Witness ==
    /\ range = [set |-> TRUE, start |-> 950, end |-> 1050]
    /\ syncPending
    /\ startSlot = <<"5", "0">>
    /\ endSlot = <<"1", "5", "0">>

\* C12: while auto-refresh is on and the latest slot L is beyond the end of
\* the active range {s, e}, no event is handled before the range is
\* replaced, and it is replaced by {L - (e - s), L}; while auto-refresh is
\* off, no step but a form handler changes an active range, so a new latest
\* slot leaves it as it was.
C12_HeadTracking ==
    [][/\ AutoUpdateDue
          => (/\ ui'.op = "idle"
              /\ latestBlock' = latestBlock
              /\ autoRefresh' = autoRefresh
              /\ range' # range
                    => range' = [set |-> TRUE,
                                 start |-> latestBlock.slot - (range.end - range.start),
                                 end |-> latestBlock.slot])
       /\ (~autoRefresh /\ range.set /\ ui'.op = "idle") => range' = range]_vars

\* reached: a range of span 9 slid to the head 15, then auto-refresh was
\* switched off and the head moved on to 1050 while the range stayed
C12_Witness ==
    /\ range = [set |-> TRUE, start |-> 6, end |-> 15]
    /\ ~autoRefresh
    /\ latestBlock = [known |-> TRUE, slot |-> 1050]
    /\ Settled

----------------------------------------------------------------------------
(* Properties of the countdown *)

\* a poll completes in the step
PollCompletes == poll.phase = "fetching" /\ poll'.phase = "waiting"

\* C13: while the countdown is displayed, it never increases in a step in
\* which no poll completes, and it is at the full interval (12 seconds)
\* right after a step in which a poll completes, with data of the node or
\* with synthetic data.
C13_CountdownFollowsPolls ==
    [][(autoRefresh /\ autoRefresh' /\ timerRef)
          => (/\ PollCompletes => countdown' = 12
              /\ ~PollCompletes => countdown' <= countdown)]_vars

----------------------------------------------------------------------------
(* Properties of the queries of the page *)

\* the latest result the query delivered was not empty: prevRef holds it
DeliveredNonEmpty(n) ==
    /\ Len(prevRef[n]) > 0
    /\ queries[n].has => queries[n].data = prevRef[n]

\* a later fetch of the query is in flight or has failed
InFlightOrFailed(n) == queries[n].fetching \/ queryIsError(queries[n])

\* C14: in every render, a query whose latest result was not empty and
\* whose later fetch is in flight or has failed hands that result to the
\* consumers; when this is so of the three queries, the page shows the
\* tabs and no loading, empty or error view.
C14_LastKnownGoodShown ==
    ~KeyChangeDue
        => (/\ \A n \in Queries :
                  (DeliveredNonEmpty(n) /\ InFlightOrFailed(n))
                      => shown[n] = prevRef[n]
            /\ ((\A n \in Queries : DeliveredNonEmpty(n))
                    /\ (\E n \in Queries : InFlightOrFailed(n)))
                  => (/\ screen.tabs
                      /\ ~screen.loading
                      /\ ~screen.empty
                      /\ ~screen.error))

----------------------------------------------------------------------------
(* Properties of the component breakdown *)

\* every value of the map is a size from 0 to sszSize
WithinBlock(map, sszSize) ==
    \A key \in KeySet : 0 <= map[key] /\ map[key] <= sszSize

C16_RescaledSumWithinBlock ==
    (metrics.done /\ SumValues(safeComponents(block)) > block.ssz_size)
        => metrics.componentsSum <= block.ssz_size

\* r is num / den rounded to the nearest integer, halves up
IsRounded(r, num, den) ==
    /\ -den < 2 * (den * r - num)
    /\ 2 * (den * r - num) <= den

\* adjusted is raw with the two estimates put in where the raw values call
\* for them and nothing else changed
EstimatesApplied(adjusted, raw, sszSize) ==
    /\ IF 100 * raw["execution_payload"] >= 95 * sszSize
       THEN IsRounded(adjusted["execution_payload"], 65 * sszSize, 100)
       ELSE adjusted["execution_payload"] = raw["execution_payload"]
    /\ IF 100 * raw["attestations"] >= 80 * sszSize
       THEN IsRounded(adjusted["attestations"], 25 * sszSize, 100)
       ELSE adjusted["attestations"] = raw["attestations"]
    /\ \A key \in KeySet \ {"execution_payload", "attestations"} :
          adjusted[key] = raw[key]

\* C17: the anomaly step replaces execution_payload by
\* round(0.65 * ssz_size) exactly when its raw value is at least 95% of
\* ssz_size and attestations by round(0.25 * ssz_size) exactly when its raw
\* value is at least 80% of ssz_size; it changes no other field.
C17_AnomalyEstimates ==
    /\ metrics.done => EstimatesApplied(metrics.adjusted, block.components, block.ssz_size)
    /\ table.done => EstimatesApplied(table.adjusted, block.components, block.ssz_size)

\* reached: a block of 100 bytes with both fields exactly at their
\* thresholds, both replaced
C17_Witness ==
    /\ metrics.done /\ table.done
    /\ block.ssz_size = 100
    /\ block.components["execution_payload"] = 95
    /\ block.components["attestations"] = 80
    /\ metrics.adjusted["execution_payload"] = 65
    /\ table.adjusted["attestations"] = 25

\* the values of the entries are numbers and sum to total within 1
SumsWithinOne(items, total) ==
    /\ \A i \in DOMAIN items : items[i].value # NaN
    /\ sumItems(items) - total <= 1
    /\ total - sumItems(items) <= 1

\* C18: the values of the entries of pieData sum to componentsSum, the sum
\* of the corrected component values, within 1.
C18_PieSumsToComponents ==
    metrics.done => SumsWithinOne(metrics.pieData, metrics.componentsSum)

\* the place of a key in the map
KeyIndex(key) == CHOOSE i \in DOMAIN ComponentKeys : ComponentKeys[i] = key

\* key a comes before key b by size, equal sizes in the order of the map
Before(map, a, b) ==
    \/ map[a] > map[b]
    \/ map[a] = map[b] /\ KeyIndex(a) < KeyIndex(b)

\* the sum of the values of the keys in rest
RECURSIVE SumOver(_, _)
SumOver(map, rest) ==
    IF rest = {} THEN 0
    ELSE LET key == CHOOSE k \in rest : TRUE
         IN  map[key] + SumOver(map, rest \ {key})

\* items is the two largest entries of map, then "Other" with the sum of
\* the rest when that sum is not 0
TopTwoAndOther(items, map) ==
    /\ Len(items) \in {2, 3}
    /\ \A i \in {1, 2} :
          /\ items[i].originalName \in KeySet
          /\ items[i].value = map[items[i].originalName]
    /\ Before(map, items[1].originalName, items[2].originalName)
    /\ \A key \in KeySet \ {items[1].originalName, items[2].originalName} :
          Before(map, items[2].originalName, key)
    /\ LET remainder == SumOver(map, KeySet \ {items[1].originalName,
                                                items[2].originalName})
       IN  /\ Len(items) = 3 <=> remainder > 0
           /\ Len(items) = 3
                 => (items[3].originalName = "other" /\ items[3].value = remainder)

\* C19: pieData has at most 3 entries: the two largest components in
\* descending order, equal sizes in the order of the map, then one "Other"
\* entry with the sum of the remaining components, present exactly when
\* that sum is greater than 0.
C19_TopTwoAndOther ==
    metrics.done => TopTwoAndOther(metrics.pieData, metrics.componentTotals)

----------------------------------------------------------------------------
(* Properties of the fee estimate *)

\* C20: wherever the fee is estimated from excess_blob_gas (fetchBlobFee,
\* fetchBlobFeesRange, their synthetic data, BlobBaseFeeChart), the
\* estimate is 0 for excess_blob_gas = 0 and at least 1 for every
\* excess_blob_gas > 0.
C20_EstimateAtLeastOne ==
    feeEvent.applied
        => (/\ feeEvent.excess = 0 => feeEvent.fee = 0
            /\ feeEvent.excess > 0 => feeEvent.fee >= 1)

----------------------------------------------------------------------------
(* Properties of the counter under overlapping requests *)

\* a request that awaited its response has finished in this step
Completes == BagCardinality(inflight') < BagCardinality(inflight)

\* C21: with several requests awaiting their responses and settling in any
\* order, every completion that fails (synthetic fallback or rejection) adds
\* exactly 1 to the failure counter and every completion that succeeds sets
\* it to 0, so that no increment is lost.
C21_AtomicCounterUpdates ==
    [][Completes =>
          /\ last'.step \in {"fallback", "rejected"}
                => apiFailureCount(sessionStorage') = Count + 1
          /\ last'.step = "success"
                => apiFailureCount(sessionStorage') = 0]_vars

\* the completion of a request that failed by itself (no response, timeout,
\* HTTP error status) raises the counter by exactly 1, whatever else is
\* awaiting its response
RequestFailuresCounted ==
    [][(Completes /\ ~IsOk(last'.resp))
          => apiFailureCount(sessionStorage') = Count + 1]_vars

----------------------------------------------------------------------------
(* Properties of the queries when the range changes *)

\* every entry of data was delivered by a fetch issued for the range key
IssuedFor(data, key) ==
    \A i \in DOMAIN data : data[i].start = key.start /\ data[i].end = key.end

\* C22: once Home has rendered with a new range, the data of each of its
\* queries and what the consumers are handed come from a fetch issued for
\* that range, or are the last-known-good value while the query of the new
\* range is loading; a result of a fetch of an earlier range that arrives
\* afterwards is not among them.
C22_StaleResponseNotApplied ==
    (~KeyChangeDue /\ queryKey.set)
        => \A n \in Queries :
              /\ queries[n].has => IssuedFor(queries[n].data, queryKey)
              /\ \/ IssuedFor(shown[n], queryKey)
                 \/ queryIsLoading(queries[n]) /\ shown[n] = prevRef[n]

\* reached: a result of the fetch of the earlier range arrives after the
\* query of the new range has delivered its own
C22_Witness ==
    /\ late.has
    /\ late.key # queryKey
    /\ Len(late.data) > 0
    /\ queries[late.name].has
    /\ Len(queries[late.name].data) > 0
    /\ shown[late.name] = queries[late.name].data

\* reached: such a result arrives while the query of the new range is
\* loading and the consumers are handed the last-known-good value
LateWhileLoading ==
    /\ late.has
    /\ Len(late.data) > 0
    /\ \E n \in Queries :
          /\ queryIsLoading(queries[n])
          /\ Len(shown[n]) > 0
          /\ ~IssuedFor(shown[n], queryKey)

----------------------------------------------------------------------------
(* Frame of a refused submit *)

\* handleSubmit ran in this step and returned at one of its checks
SubmitRefused == ui'.op = "handleSubmit" /\ ui'.calls = <<>> /\ error' # NoError

----------------------------------------------------------------------------
(* Properties of the breakdown of a block without component bytes *)

\* C24: for a block whose corrected component values are all zero, also
\* when its ssz_size is above 0, every percentage of the table is 0 and
\* neither a percentage nor a value of the pie is NaN or Infinity.
C24_NoDivisionByZero ==
    /\ (table.done /\ table.componentsSum = 0)
          => /\ \A key \in KeySet : table.percentages[key] = Percentage(0)
             /\ table.totalPercentage = Percentage(0)
    /\ (metrics.done /\ metrics.componentsSum = 0)
          => \A i \in DOMAIN metrics.pieData : metrics.pieData[i].value # NaN

\* the pie alone: no value is NaN
PieWithoutNaN ==
    (metrics.done /\ metrics.componentsSum = 0)
        => \A i \in DOMAIN metrics.pieData : metrics.pieData[i].value # NaN

\* the table alone: every percentage is 0
TableWithoutNaN ==
    (table.done /\ table.componentsSum = 0)
        => \A key \in KeySet : table.percentages[key] = Percentage(0)

----------------------------------------------------------------------------
(* Properties of the value of the countdown *)

\* C25: while auto-refresh is on, with e the time since the countdown was
\* last reset, e is below the interval (at the interval the countdown is
\* reset to interval / 1000) and the badge shows ceil((interval - e) / 1000),
\* a whole number from 0 to interval / 1000; while auto-refresh is off no
\* timer is set and no badge is shown.
C25_CountdownValue ==
    /\ (autoRefresh /\ ~CountdownEffectDue)
          => /\ timerRef
             /\ badge.shown
             /\ sinceStart < AUTO_REFRESH_INTERVAL
             /\ badge.value * 1000 >= AUTO_REFRESH_INTERVAL - sinceStart
             /\ (badge.value - 1) * 1000 < AUTO_REFRESH_INTERVAL - sinceStart
             /\ badge.value \in 0..(AUTO_REFRESH_INTERVAL \div 1000)
    /\ ~autoRefresh => ~badge.shown
    /\ (~autoRefresh /\ ~CountdownEffectDue) => ~timerRef

\* reached: 2.1 s after a reset the badge shows 10
C25_Witness ==
    /\ autoRefresh
    /\ timerRef
    /\ ~CountdownEffectDue
    /\ sinceStart = 2100
    /\ badge.shown
    /\ badge.value = 10

\* reached: the countdown was reset at the end of the interval
CountdownRestarted ==
    /\ autoRefresh
    /\ timerRef
    /\ sinceStart = 0
    /\ poll.since >= AUTO_REFRESH_INTERVAL
    /\ badge.value = 12

----------------------------------------------------------------------------
(* Frame of the mock branch *)

\* a fetch operation was called in this step
Invoked == last'.step \in {"mock", "issued"}

\* C26: a fetch operation served by its mock branch (mock parameter, or
\* counter above 3) leaves the failure counter as it is; and while the
\* counter is above 3 every fetch operation that is called is served by that
\* branch and puts no request in flight, so that no fetch started then can
\* set the counter back to 0.
C26_MockBranchFrame ==
    [][/\ (Invoked /\ last'.step = "mock")
             => (sessionStorage' = sessionStorage /\ inflight' = inflight)
       /\ (Invoked /\ Count > 3) => last'.step = "mock"
       /\ Count > 3 => BagCardinality(inflight') <= BagCardinality(inflight)]_vars

\* reached: a call served by the mock branch with the counter above 3, a
\* request of before still in flight
C26_Witness ==
    /\ last.step = "mock"
    /\ ~mockParam
    /\ last.prev = 4
    /\ Count = 4
    /\ BagCardinality(inflight) = 1

----------------------------------------------------------------------------
(* Properties of the range under head-tracking *)

\* auto-refresh is on and the end of the active range is below the latest slot
HeadBeyondRange ==
    /\ autoRefresh
    /\ latestBlock.known
    /\ range.set
    /\ range.end < latestBlock.slot

\* the window of the span of the active range that ends at the latest slot
HeadWindow ==
    [set |-> TRUE,
     start |-> latestBlock.slot - (range.end - range.start),
     end |-> latestBlock.slot]

\* C27: with auto-refresh on and the latest slot L known, an active range
\* whose end is below L, also one the form or a shortcut has just handed
\* over, is replaced by {L - span, L} without a change of L: the only
\* step that may come before the replacement is the effect that copies the
\* range into the fields of the form; so in every settled state with
\* auto-refresh on the end of the range is not below L.
C27_HeadTrackingReplacesRange ==
    [][/\ HeadBeyondRange
             => /\ latestBlock' = latestBlock
                /\ autoRefresh' = autoRefresh
                /\ \/ range' = HeadWindow
                   \/ range' = range /\ syncPending /\ ~syncPending'
       /\ (Settled /\ autoRefresh /\ latestBlock.known /\ range.set)
             => range.end >= latestBlock.slot]_vars

\* reached: the range the user submitted (0 to 10, still in the fields) has
\* been replaced by the window of its span at the latest slot 15
C27_Witness ==
    /\ autoRefresh
    /\ latestBlock = [known |-> TRUE, slot |-> 15]
    /\ startSlot = <<"0">>
    /\ endSlot = <<"1", "0">>
    /\ range = [set |-> TRUE, start |-> 5, end |-> 15]
    /\ syncPending
    /\ ui = Idle

----------------------------------------------------------------------------
(* Properties of the breakdown kept by "Other" *)

\* C28: in the pie data of BlockSizeMetrics, the value of an "Other" entry
\* is the sum of the values of the components it keeps.
C28_OtherIsSumOfItsComponents ==
    metrics.done
        => \A i \in DOMAIN metrics.pieData :
              metrics.pieData[i].originalName = "other"
                  => metrics.pieData[i].value = sumItems(metrics.pieData[i].components)

----------------------------------------------------------------------------
(* BlockComponentsTable against BlockSizeMetrics *)

\* C29: for the same latest block, BlockComponentsTable and BlockSizeMetrics
\* compute the same corrected component map and the same componentsSum.
C29_TableAgreesWithMetrics ==
    (metrics.done /\ table.done)
        => /\ metrics.componentTotals = table.latestComponents
           /\ metrics.componentsSum = table.componentsSum

\* the two components agree up to the step that normalizes the map
AgreeBeforeNormalization ==
    (metrics.done /\ table.done)
        => /\ metrics.adjusted = table.adjusted
           /\ scaleToBlock(table.latestComponents, block.ssz_size) = metrics.componentTotals

----------------------------------------------------------------------------
(* Properties of the views of the page *)

\* RangeSelector is part of the view of the tabs and of no other view
rangeSelectorRendered == screen.tabs

\* C30: in every render with an active range in which the page does not
\* show its loading view, RangeSelector is rendered, also after a fetch
\* delivered an empty list of blocks or a query ended in error.
C30_RangeSelectorRendered ==
    (~KeyChangeDue /\ range.set /\ ~screen.loading) => rangeSelectorRendered

\* the case of the empty list of blocks alone (no query has failed); it does
\* not hold either
RenderedWithoutError ==
    (~KeyChangeDue /\ range.set /\ ~screen.loading /\ ~screen.error)
        => rangeSelectorRendered

\* the case of the failed query alone (blocks were handed on); it does not
\* hold either
RenderedWithBlocks ==
    (~KeyChangeDue /\ range.set /\ ~screen.loading /\ Len(shown["blocks"]) > 0)
        => rangeSelectorRendered

====
